---- MODULE Spec2Model ----
(***************************************************************************)
(* The Discovery Server of core/explorer/discovery.go: the loop that       *)
(* probes every token of the Token Store, scans the ledger of its network, *)
(* replaces the token's NetworkState entry or records a failure, and       *)
(* evicts the tokens whose failure count exceeds errorThreshold.           *)
(***************************************************************************)
EXTENDS Integers, Sequences, FiniteSets, TLC

(***************************************************************************)
(* Bounds and universes                                                    *)
(***************************************************************************)
\* failureThreshold arguments given to NewDiscoveryServer: 0..MaxThresholdArg
MaxThresholdArg == 1

\* the tokens that can ever be added to the Token Store
Tokens == {"net1", "net2"}

NoToken == "-"

\* failureThreshold default of NewDiscoveryServer
DefaultThreshold == 3

(***************************************************************************)
(* Strings are sequences of characters, so that strings.Contains and       *)
(* strings.Split are computed as Go computes them.                         *)
(***************************************************************************)
Underscore == <<"_">>

\* p2p.WorkerID and p2p.FederatedID, the well-known markers
WorkerID == <<"W", "O", "R", "K", "E", "R", "_", "I", "D">>

FederatedID == <<"F", "E", "D", "E", "R", "A", "T", "E", "D", "_", "I", "D">>

\* strings.Contains(s, sub)
Contains(s, sub) ==
    \E i \in 1..(Len(s) - Len(sub) + 1) : SubSeq(s, i, i + Len(sub) - 1) = sub

\* strings.Split(s, sep)[0]: the text before the first occurrence of sep
SplitFirst(s, sep) ==
    IF Contains(s, sep)
    THEN LET i == CHOOSE j \in 1..(Len(s) - Len(sep) + 1) :
                      /\ SubSeq(s, j, j + Len(sep) - 1) = sep
                      /\ \A h \in 1..(j - 1) : SubSeq(s, h, h + Len(sep) - 1) # sep
         IN  SubSeq(s, 1, i - 1)
    ELSE s

(***************************************************************************)
(* Ledger storage: key -> sequence of raw values.  A raw value either      *)
(* decodes to a NodeData (ok) with an ID and an online flag, or does not.  *)
(***************************************************************************)
Online(id) == [ok |-> TRUE, ID |-> id, online |-> TRUE]

Offline(id) == [ok |-> TRUE, ID |-> id, online |-> FALSE]

Garbage == [ok |-> FALSE, ID |-> "", online |-> FALSE]

KeyWorker == WorkerID

KeyFed == FederatedID

KeyOther == <<"s", "v", "c">>

KeyNetOther == <<"n", "1", "_", "s", "v", "c">>

KeyNetWorker == <<"n", "e", "t", "1", "_">> \o WorkerID

EmptyStorage == [k \in {} |-> <<>>]

\* the storages a sample of ledger.LastBlock().Storage can return
Storages ==
    { EmptyStorage,
      [k \in {KeyNetWorker} |-> <<Garbage, Online("w1"), Offline("w2")>>],
      [k \in {KeyWorker, KeyNetWorker, KeyFed} |->
          IF k = KeyFed THEN <<Garbage, Online("w2")>>
                        ELSE <<Offline("w1")>>],
      [k \in {KeyOther, KeyNetOther} |-> <<Online("w3")>>] }

\* further storages of a ledger whose worker key changes its nodes from one
\* sample to the next
MoreStorages ==
    { [k \in {KeyNetWorker} |-> <<Online("w3"), Online("w1")>>] }

(***************************************************************************)
(* retrieveNetworkData, one sample: classification of a key and the        *)
(* ClusterData built from its values                                       *)
(***************************************************************************)
isWorkerCluster(d) ==
    d = WorkerID \/ (Contains(d, Underscore) /\ Contains(d, WorkerID))

isFederatedCluster(d) ==
    d = FederatedID \/ (Contains(d, Underscore) /\ Contains(d, FederatedID))

\* mutant: every key of the ledger is scanned for workers
toScanEveryKey(d) == TRUE

toScanForWorkers(d) == isWorkerCluster(d) \/ isFederatedCluster(d)

ClusterType(d) ==
    IF isWorkerCluster(d) THEN "worker"
    ELSE IF isFederatedCluster(d) THEN "federated" ELSE ""

\* mutant: the whole key is taken as the NetworkID
ClusterNetworkIDWholeKey(d) == d

ClusterNetworkID(d) ==
    IF Contains(d, Underscore) THEN SplitFirst(d, Underscore) ELSE <<>>

\* mutant: a value that fails to decode ends the DATA loop
RECURSIVE OnlineWorkersStopAtGarbage(_)
OnlineWorkersStopAtGarbage(vs) ==
    IF vs = <<>> \/ ~Head(vs).ok THEN <<>>
    ELSE IF Head(vs).online
         THEN <<Head(vs).ID>> \o OnlineWorkersStopAtGarbage(Tail(vs))
         ELSE OnlineWorkersStopAtGarbage(Tail(vs))

\* the DATA loop: the IDs of the values that decode and are online, in order
RECURSIVE OnlineWorkers(_)
OnlineWorkers(vs) ==
    IF vs = <<>> THEN <<>>
    ELSE LET v == Head(vs)
         IN  IF v.ok /\ v.online
             THEN <<v.ID>> \o OnlineWorkers(Tail(vs))
             ELSE OnlineWorkers(Tail(vs))

MakeClusterData(d, vs) ==
    [Workers |-> OnlineWorkers(vs), Type |-> ClusterType(d),
     NetworkID |-> ClusterNetworkID(d)]

\* mutant: atLeastOneWorker is set by any value that decodes
RetainedAnyDecoded(data, d) ==
    toScanForWorkers(d) /\ \E i \in 1..Len(data[d]) : data[d][i].ok

\* mutant: the cluster of every scanned key is kept
RetainedEveryScanned(data, d) == toScanForWorkers(d)

\* atLeastOneWorker for key d of storage data
Retained(data, d) ==
    toScanForWorkers(d) /\ OnlineWorkers(data[d]) # <<>>

\* mutant: an entry of clusters is never overwritten by a later sample
ScanSampleKeepsFirst(cl, data) ==
    LET kept == {d \in DOMAIN data : Retained(data, d)}
    IN  [d \in (DOMAIN cl) \cup kept |->
            IF d \in DOMAIN cl THEN cl[d] ELSE MakeClusterData(d, data[d])]

\* the LEDGER loop over one sample: clusters[d] = cd for every retained key
ScanSample(cl, data) ==
    LET kept == {d \in DOMAIN data : Retained(data, d)}
    IN  [d \in (DOMAIN cl) \cup kept |->
            IF d \in kept THEN MakeClusterData(d, data[d]) ELSE cl[d]]

NoClusters == [d \in {} |-> <<>>]

(***************************************************************************)
(* The failure map.  A Go map is nil until it is allocated: reading,       *)
(* ranging over and deleting from a nil map are no-ops, assigning to an    *)
(* entry of a nil map panics.                                              *)
(***************************************************************************)
NoCounts == [t \in {} |-> 0]

NilMap == [alloc |-> FALSE, m |-> NoCounts]

AllocMap == [alloc |-> TRUE, m |-> NoCounts]

\* s.failures[token] read: the zero value when absent
Count(f, t) == IF t \in DOMAIN f.m THEN f.m[t] ELSE 0

\* s.failures[token]++ panics on a nil map
IncrementPanics(f) == ~f.alloc

\* mutant: a failure counts twice
IncrementByTwo(f, t) ==
    [f EXCEPT !.m = [x \in (DOMAIN f.m) \cup {t} |->
                        IF x = t THEN Count(f, t) + 2 ELSE f.m[x]]]

\* s.failures[token]++ on an allocated map
Increment(f, t) ==
    [f EXCEPT !.m = [x \in (DOMAIN f.m) \cup {t} |->
                        IF x = t THEN Count(f, t) + 1 ELSE f.m[x]]]

\* mutant: the success path leaves the counter in place
ClearFailureKeeps(f, t) == f

\* mutant: the success path decrements the counter instead of deleting it
ClearFailureDecrements(f, t) ==
    [f EXCEPT !.m = [x \in DOMAIN f.m |-> IF x = t THEN f.m[x] - 1 ELSE f.m[x]]]

\* delete(s.failures, token)
ClearFailure(f, t) ==
    [f EXCEPT !.m = [x \in (DOMAIN f.m) \ {t} |-> f.m[x]]]

\* mutant: the sweep evicts one failure too late
ShouldEvictLate(v, thr) == v > thr + 1

\* mutant: the sweep evicts a count that merely reaches the threshold
ShouldEvictAtThreshold(v, thr) == v >= thr

\* the test of the sweep: v > s.errorThreshold
ShouldEvict(v, thr) == v > thr

\* the keys the sweep deletes from the Token Store and from the failure map
Evicted(f, thr) == {k \in DOMAIN f.m : ShouldEvict(f.m[k], thr)}

\* the failure map after the sweep
SweepFailures(f, thr) ==
    [f EXCEPT !.m = [x \in (DOMAIN f.m) \ Evicted(f, thr) |-> f.m[x]]]

(***************************************************************************)
(* NetworkState.Networks: token -> the Clusters of its Network             *)
(***************************************************************************)
NoNetworks == [t \in {} |-> <<>>]

\* mutant: the new clusters are appended to the entry's old ones
ReplaceTokenMerges(ns, t, cds) ==
    [x \in (DOMAIN ns) \cup {t} |->
        IF x = t THEN (IF t \in DOMAIN ns THEN ns[t] ELSE <<>>) \o cds ELSE ns[x]]

\* s.networkState.Networks[token] = Network{Clusters: ledgerK}
ReplaceToken(ns, t, cds) ==
    [x \in (DOMAIN ns) \cup {t} |-> IF x = t THEN cds ELSE ns[x]]

\* mutant: the entry is replaced whatever the scan collected
PassSucceededAlways(hw, cds) == TRUE

\* line 116: if hasWorkers
PassSucceeded(hw, cds) == hw

\* lines 104-106: hasWorkers after receiving cd
SeesWorkers(hw, cd) == hw \/ Len(cd.Workers) > 0

(***************************************************************************)
(* The Token Store (Database): TokenList, Delete, and tokens added by the  *)
(* HTTP layer                                                              *)
(***************************************************************************)
\* mutant: the empty check is missing
TokenListNeverEmpty(store) == FALSE

\* line 59: len(s.database.TokenList()) == 0
TokenListIsEmpty(store) == store = {}

\* database.Delete(k) for every evicted k
DbDelete(store, gone) == store \ gone

\* the orders in which TokenList can return the tokens of the store
RECURSIVE TokenLists(_)
TokenLists(S) ==
    IF S = {} THEN {<<>>}
    ELSE UNION {{<<t>> \o rest : rest \in TokenLists(S \ {t})} : t \in S}

(***************************************************************************)
(* State                                                                   *)
(***************************************************************************)
VARIABLES
    db,              \* the tokens of the Token Store
    errorThreshold,  \* DiscoveryServer.errorThreshold
    networkState,    \* DiscoveryServer.networkState.Networks
    failures,        \* DiscoveryServer.failures
    pc,              \* where the goroutine of Start is
    todo,            \* the tokens of the range loop not yet visited
    token,           \* the token of the current iteration
    expired,         \* c.Done() of the current iteration's context is closed
    spc,             \* where the goroutine of retrieveNetworkData is
    clusters,        \* retrieveNetworkData's clusters map
    pending,         \* the keys of clusters the deferred loop has still to send
    ledgerK,         \* runBackground's ledgerK
    hasWorkers,      \* runBackground's hasWorkers
    lock,            \* who holds the DiscoveryServer mutex
    held,            \* token -> what this pass opened for it and is still
                     \* live: its context ("ctx") or also a started node ("node")
    cancelled,       \* ctx.Done() of Start's context is closed
    rpc,             \* where a reader of NetworkState() is
    last,            \* history: the last operation the loop completed
    streak,          \* history: consecutive failed passes per token since
                     \* the token was added or last succeeded
    scanLog          \* history: the keys the samples of the current scan
                     \* held, those that held an online node, the values of
                     \* each at the latest sample where it held one, and
                     \* those with no online node in the latest sample

vars == <<db, errorThreshold, networkState, failures, pc, todo, token, expired,
          spc, clusters, pending, ledgerK, hasWorkers, lock, held, cancelled,
          rpc, last, streak, scanLog>>

scanVars == <<expired, spc, clusters, pending, ledgerK, hasWorkers>>

\* a history record: the operation, its token, the token's NetworkState entry
\* and failure count before it, and the tokens a sweep evicted
Event(op, t, oldNet, oldCount, gone) ==
    [op |-> op, token |-> t, oldNet |-> oldNet, oldCount |-> oldCount,
     evicted |-> gone]

\* the Clusters of token t in NetworkState, empty when t has no entry
Entry(ns, t) == IF t \in DOMAIN ns THEN ns[t] ELSE <<>>

NoStreak == [t \in Tokens |-> 0]

NoHeld == [t \in {} |-> ""]

\* the context (and the node, once started) opened for token t
Hold(h, t, what) ==
    [x \in (DOMAIN h) \cup {t} |-> IF x = t THEN what ELSE h[x]]

\* the context of token t is done: what hung on it is released
Release(h, t) == [x \in (DOMAIN h) \ {t} |-> h[x]]

NoScanLog ==
    [keys |-> {}, online |-> {}, latest |-> [k \in {} |-> <<>>], stale |-> {}]

\* value v decodes to an online node
IsOnlineValue(v) == v.ok /\ v.online

\* the history of a scan after one more sample: the keys seen, those seen
\* with an online node, for each of these the values of the latest sample in
\* which it had one, and the scanned ones of them without an online node in
\* this sample
Logged(log, data) ==
    LET on == {k \in DOMAIN data :
                  \E i \in 1..Len(data[k]) : IsOnlineValue(data[k][i])}
    IN  [keys |-> log.keys \cup DOMAIN data,
         online |-> log.online \cup on,
         latest |-> [k \in log.online \cup on |->
                        IF k \in on THEN data[k] ELSE log.latest[k]],
         stale |-> {k \in log.online \ on : toScanForWorkers(k)}]

\* NewDiscoveryServer(db, dur, failureThreshold)
NewDiscoveryServer(arg) ==
    /\ errorThreshold = IF arg = 0 THEN DefaultThreshold ELSE arg
    /\ networkState = NoNetworks
    /\ failures = NilMap

InitRest ==
    /\ db = {}
    /\ pc = "start"
    /\ todo = <<>>
    /\ token = NoToken
    /\ expired = FALSE
    /\ spc = "off"
    /\ clusters = NoClusters
    /\ pending = {}
    /\ ledgerK = <<>>
    /\ hasWorkers = FALSE
    /\ lock = "none"
    /\ held = NoHeld
    /\ cancelled = FALSE
    /\ rpc = "idle"
    /\ last = Event("none", NoToken, <<>>, 0, {})
    /\ streak = NoStreak
    /\ scanLog = NoScanLog

Init ==
    /\ \E arg \in 0..MaxThresholdArg : NewDiscoveryServer(arg)
    /\ InitRest

\* a DiscoveryServer whose failures map has been allocated
InitAlloc ==
    /\ \E arg \in 0..MaxThresholdArg :
          /\ errorThreshold = IF arg = 0 THEN DefaultThreshold ELSE arg
          /\ networkState = NoNetworks
          /\ failures = AllocMap
    /\ InitRest

(***************************************************************************)
(* The environment                                                         *)
(***************************************************************************)
\* a token is added to the Token Store by the HTTP layer
AddToken(t) ==
    /\ pc # "panicked"
    /\ t \notin db
    /\ db' = db \cup {t}
    /\ streak' = [streak EXCEPT ![t] = 0]
    /\ UNCHANGED <<errorThreshold, networkState, failures, pc, todo, token,
                   last, lock, held, cancelled, rpc, scanLog>>
    /\ UNCHANGED scanVars

\* the deadline of a context opened in this pass fires
Deadline ==
    /\ \E t \in DOMAIN held :
          /\ held' = Release(held, t)
          /\ expired' = (expired \/ (pc = "recv" /\ t = token))
    /\ UNCHANGED <<db, errorThreshold, networkState, failures, pc, todo, token,
                   spc, clusters, pending, ledgerK, hasWorkers, last, streak,
                   lock, cancelled, rpc, scanLog>>

\* the context given to Start is cancelled
Cancel ==
    /\ ~cancelled
    /\ pc # "panicked"
    /\ cancelled' = TRUE
    /\ UNCHANGED <<db, errorThreshold, networkState, failures, pc, todo, token,
                   last, streak, lock, held, rpc, scanLog>>
    /\ UNCHANGED scanVars

(***************************************************************************)
(* runBackground                                                           *)
(***************************************************************************)
\* s.failedToken(token) followed by the end of the iteration; a panic
\* unwinds runBackground, whose deferred cancels then run
RecordFailure(t, h) ==
    /\ lock = "none"
    /\ streak' = [streak EXCEPT ![t] = @ + 1]
    /\ networkState' = networkState
    /\ IF IncrementPanics(failures)
       THEN /\ failures' = failures
            /\ pc' = "panicked"
            /\ held' = NoHeld
            /\ last' = Event("panic", t, Entry(networkState, t),
                             Count(failures, t), {})
       ELSE /\ failures' = Increment(failures, t)
            /\ pc' = "loop"
            /\ held' = h
            /\ last' = Event("failed", t, Entry(networkState, t),
                             Count(failures, t), {})

\* lines 59-62: an empty token list: sleep and return
EmptyPass ==
    /\ pc = "start"
    /\ ~cancelled
    /\ TokenListIsEmpty(db)
    /\ pc' = "start"
    /\ last' = Event("empty", NoToken, <<>>, 0, {})
    /\ UNCHANGED <<db, errorThreshold, networkState, failures, todo, token,
                   streak, lock, held, cancelled, rpc, scanLog>>
    /\ UNCHANGED scanVars

\* lines 59-62: the token list is not empty
BeginPass ==
    /\ pc = "start"
    /\ ~cancelled
    /\ ~TokenListIsEmpty(db)
    /\ pc' = "range"
    /\ UNCHANGED <<db, errorThreshold, networkState, failures, todo, token,
                   last, streak, lock, held, cancelled, rpc, scanLog>>
    /\ UNCHANGED scanVars

\* line 64: the range expression, the second call of TokenList
RangeTokens ==
    /\ pc = "range"
    /\ \E list \in TokenLists(db) : todo' = list
    /\ pc' = "loop"
    /\ UNCHANGED <<db, errorThreshold, networkState, failures, token, last,
                   streak, lock, held, cancelled, rpc, scanLog>>
    /\ UNCHANGED scanVars

ConnectSteps == {"NewNode", "Start", "Ledger"}

\* what is live when the step fails: the context, and the node if n.Start(c)
\* had returned without error
HeldAfter(step) == IF step = "Ledger" THEN "node" ELSE "ctx"

\* lines 65-91: NewNode, Start or Ledger fails
ConnectFails(step) ==
    /\ pc = "loop"
    /\ todo # <<>>
    /\ token' = Head(todo)
    /\ todo' = Tail(todo)
    /\ RecordFailure(Head(todo), Hold(held, Head(todo), HeldAfter(step)))
    /\ UNCHANGED <<db, errorThreshold, lock, cancelled, rpc, scanLog>>
    /\ UNCHANGED scanVars

\* lines 65-100: the node is up; the scanner goroutine is started
ConnectOK ==
    /\ pc = "loop"
    /\ todo # <<>>
    /\ token' = Head(todo)
    /\ todo' = Tail(todo)
    /\ held' = Hold(held, Head(todo), "node")
    /\ expired' = FALSE
    /\ spc' = "select"
    /\ clusters' = NoClusters
    /\ pending' = {}
    /\ ledgerK' = <<>>
    /\ hasWorkers' = FALSE
    /\ scanLog' = NoScanLog
    /\ pc' = "recv"
    /\ UNCHANGED <<db, errorThreshold, networkState, failures, last, streak,
                   lock, cancelled, rpc>>

\* mutant: the receive loop ends as soon as the scanner starts to flush
ChannelClosedEarly(s) == s \in {"flush", "closed"}

\* mutant: the receive loop never sees the channel closed
ChannelNeverClosed(s) == FALSE

\* line 102: range networkData ends when the scanner has closed the channel
ChannelClosed(s) == s = "closed"

\* mutant: the deferred function closes the channel without sending
ToSendNothing(cl) == {}

\* lines 158-161: the deferred function sends every entry of clusters
ToSend(cl) == DOMAIN cl

\* mutant: the sweep does not wait for the end of the range loop
RangeDoneAlways(td) == TRUE

\* line 64: the range over the token list has no token left
RangeDone(td) == td = <<>>

\* lines 102-107: one ClusterData passes over the unbuffered channel
Handoff ==
    /\ pc = "recv"
    /\ spc = "flush"
    /\ \E k \in pending :
          /\ pending' = pending \ {k}
          /\ ledgerK' = Append(ledgerK, clusters[k])
          /\ hasWorkers' = SeesWorkers(hasWorkers, clusters[k])
    /\ UNCHANGED <<db, errorThreshold, networkState, failures, pc, todo, token,
                   expired, spc, clusters, last, streak, lock, held, cancelled,
                   rpc, scanLog>>

ResetScan ==
    /\ expired' = FALSE
    /\ spc' = "off"
    /\ clusters' = NoClusters
    /\ pending' = {}
    /\ ledgerK' = <<>>
    /\ hasWorkers' = FALSE
    /\ scanLog' = NoScanLog

\* a write of the Networks map while a reader ranges over it
Overlap(r) == IF r = "reading" THEN "raced" ELSE r

\* lines 116-122: the channel is closed and a cluster has workers
FinishSuccess ==
    /\ pc = "recv"
    /\ ChannelClosed(spc)
    /\ PassSucceeded(hasWorkers, ledgerK)
    /\ lock = "none"
    /\ networkState' = ReplaceToken(networkState, token, ledgerK)
    /\ failures' = ClearFailure(failures, token)
    /\ rpc' = Overlap(rpc)
    /\ streak' = [streak EXCEPT ![token] = 0]
    /\ last' = Event("success", token, Entry(networkState, token),
                     Count(failures, token), {})
    /\ pc' = "loop"
    /\ ResetScan
    /\ UNCHANGED <<db, errorThreshold, todo, token, lock, held, cancelled>>

\* lines 123-125: the channel is closed and no cluster has workers
FinishFailure ==
    /\ pc = "recv"
    /\ ChannelClosed(spc)
    /\ ~PassSucceeded(hasWorkers, ledgerK)
    /\ RecordFailure(token, held)
    /\ ResetScan
    /\ UNCHANGED <<db, errorThreshold, todo, token, lock, cancelled, rpc>>

\* lines 128, 138: deleteFailedConnections takes the lock
SweepLock ==
    /\ pc = "loop"
    /\ RangeDone(todo)
    /\ lock = "none"
    /\ lock' = "loop"
    /\ pc' = "sweep"
    /\ UNCHANGED <<db, errorThreshold, networkState, failures, todo, token,
                   last, streak, held, cancelled, rpc, scanLog>>
    /\ UNCHANGED scanVars

\* lines 139-147: the range over s.failures with its database.Delete calls,
\* the deferred Unlock, then runBackground returns and its deferred cancels run
Sweep ==
    /\ pc = "sweep"
    /\ LET gone == Evicted(failures, errorThreshold)
       IN  /\ db' = DbDelete(db, gone)
           /\ failures' = SweepFailures(failures, errorThreshold)
           /\ streak' = streak
           /\ last' = Event("sweep", NoToken, <<>>, 0, gone)
    /\ lock' = "none"
    /\ held' = NoHeld
    /\ pc' = "start"
    /\ token' = NoToken
    /\ UNCHANGED <<errorThreshold, networkState, todo, cancelled, rpc, scanLog>>
    /\ UNCHANGED scanVars

(***************************************************************************)
(* Start                                                                   *)
(***************************************************************************)
\* lines 222-223: the select sees ctx.Done() and Start returns an error
StartReturn ==
    /\ pc = "start"
    /\ cancelled
    /\ pc' = "returned"
    /\ UNCHANGED <<db, errorThreshold, networkState, failures, todo, token,
                   last, streak, lock, held, cancelled, rpc, scanLog>>
    /\ UNCHANGED scanVars

(***************************************************************************)
(* A reader of the snapshot                                                *)
(***************************************************************************)
\* lines 29-33: NetworkState() returns s.networkState under the lock
ReaderGet ==
    /\ rpc = "idle"
    /\ pc # "panicked"
    /\ lock = "none"
    /\ rpc' = "holds"
    /\ UNCHANGED <<db, errorThreshold, networkState, failures, pc, todo, token,
                   last, streak, lock, held, cancelled, scanLog>>
    /\ UNCHANGED scanVars

\* the reader starts to range over the Networks map of the pointer it got
ReaderRead ==
    /\ rpc = "holds"
    /\ pc # "panicked"
    /\ rpc' = "reading"
    /\ UNCHANGED <<db, errorThreshold, networkState, failures, pc, todo, token,
                   last, streak, lock, held, cancelled, scanLog>>
    /\ UNCHANGED scanVars

\* what a read of the map can end in: when a write overlapped it, a torn view
\* or the runtime's fatal "concurrent map read and map write"
ReadOutcomes(r) == IF r = "raced" THEN {"torn", "fatal"} ELSE {"ok"}

\* the reader's range over the map ends
ReaderDone ==
    /\ rpc \in {"reading", "raced"}
    /\ pc # "panicked"
    /\ \E o \in ReadOutcomes(rpc) :
          pc' = IF o = "fatal" THEN "panicked" ELSE pc
    /\ rpc' = "idle"
    /\ UNCHANGED <<db, errorThreshold, networkState, failures, todo, token,
                   last, streak, lock, held, cancelled, scanLog>>
    /\ UNCHANGED scanVars

(***************************************************************************)
(* retrieveNetworkData                                                     *)
(***************************************************************************)
\* lines 166-170: the select on c.Done()
ScannerSelect ==
    /\ pc = "recv"
    /\ spc = "select"
    /\ IF expired
       THEN spc' = "flush" /\ pending' = ToSend(clusters)
       ELSE spc' = "sleep" /\ pending' = pending
    /\ UNCHANGED <<db, errorThreshold, networkState, failures, pc, todo, token,
                   expired, clusters, ledgerK, hasWorkers, last, streak, lock,
                   held, cancelled, rpc, scanLog>>

\* lines 170-213: after the sleep, one sample of a ledger whose storage is
\* one of samples
Sample(samples) ==
    /\ pc = "recv"
    /\ spc = "sleep"
    /\ \E data \in samples :
          /\ clusters' = ScanSample(clusters, data)
          /\ scanLog' = Logged(scanLog, data)
    /\ spc' = "select"
    /\ UNCHANGED <<db, errorThreshold, networkState, failures, pc, todo, token,
                   expired, pending, ledgerK, hasWorkers, last, streak, lock,
                   held, cancelled, rpc>>

ScannerSample == Sample(Storages)

\* a sample of the ledger whose worker key has changed its nodes
ScannerSampleMore == Sample(MoreStorages)

\* line 162: everything is sent; close(networkData)
ScannerClose ==
    /\ pc = "recv"
    /\ spc = "flush"
    /\ pending = {}
    /\ spc' = "closed"
    /\ UNCHANGED <<db, errorThreshold, networkState, failures, pc, todo, token,
                   expired, clusters, pending, ledgerK, hasWorkers, last,
                   streak, lock, held, cancelled, rpc, scanLog>>

\* the steps of the goroutine of Start, under a context never cancelled
LoopNext ==
    \/ EmptyPass
    \/ BeginPass
    \/ RangeTokens
    \/ \E step \in ConnectSteps : ConnectFails(step)
    \/ ConnectOK
    \/ FinishSuccess
    \/ FinishFailure
    \/ SweepLock
    \/ Sweep

\* the steps of the goroutine of retrieveNetworkData
ScannerNext ==
    \/ ScannerSelect
    \/ ScannerSample
    \/ Handoff
    \/ ScannerClose

Next ==
    \/ \E t \in Tokens : AddToken(t)
    \/ Deadline
    \/ LoopNext
    \/ ScannerNext

\* with a context that can be cancelled
NextCancel ==
    \/ Next
    \/ Cancel
    \/ StartReturn

\* with a reader of NetworkState()
NextReader ==
    \/ Next
    \/ ReaderGet
    \/ ReaderRead
    \/ ReaderDone

\* with a ledger whose worker key changes its nodes between samples
NextScan ==
    \/ Next
    \/ ScannerSampleMore

\* the server as NewDiscoveryServer constructs it, started as the explorer
\* command starts it (on context.Background())
Spec == Init /\ [][Next]_vars

\* the server with its failures map allocated
SpecAlloc == InitAlloc /\ [][Next]_vars

\* the goroutines run and the timers fire
Fairness ==
    /\ WF_vars(LoopNext \/ StartReturn)
    /\ WF_vars(ScannerNext)
    /\ WF_vars(Deadline)

\* the constructed server under a cancellable context
SpecCancel == Init /\ [][NextCancel]_vars /\ Fairness

\* the server with its failures map allocated, under a cancellable context
SpecAllocCancel == InitAlloc /\ [][NextCancel]_vars /\ Fairness

\* the constructed server with a concurrent reader
SpecReader == Init /\ [][NextReader]_vars

\* the constructed server on a ledger that changes between samples
SpecScan == Init /\ [][NextScan]_vars

(***************************************************************************)
(* Steps of the loop, recognised from the state before and after           *)
(***************************************************************************)
\* deleteFailedConnections has run
SweepStep == pc = "sweep" /\ pc' = "start"

\* the range loop has ended for the current token after the channel closed
ScanEnds == pc = "recv" /\ spc = "closed" /\ spc' = "off"

\* some collected ClusterData has a non-empty worker list
CollectedWorkers == \E i \in 1..Len(ledgerK) : ledgerK[i].Workers # <<>>

\* a successful pass for the current token
SuccessStep == ScanEnds /\ CollectedWorkers

\* the processing of a token ends in failure
FailureStep ==
    \/ pc = "loop" /\ todo # <<>> /\ todo' # todo /\ pc' # "recv"
    \/ ScanEnds /\ ~CollectedWorkers

\* the state between two passes, right after a sweep
AfterSweep == pc = "start" /\ last.op = "sweep"

C3_EvictedAtFourthPass ==
    errorThreshold = DefaultThreshold =>
       \A t \in Tokens :
          /\ streak[t] >= 1 => pc # "panicked"
          /\ (AfterSweep /\ streak[t] \in 1..errorThreshold) => t \in db
          /\ (AfterSweep /\ streak[t] = errorThreshold + 1) =>
                (t \notin db /\ t \notin DOMAIN failures.m)

C6_RecordFailure ==
    [][\A t \in Tokens :
          streak'[t] = streak[t] + 1 =>
             /\ pc' # "panicked"
             /\ Count(failures', t) = Count(failures, t) + 1
             /\ \A u \in Tokens \ {t} : Count(failures', u) = Count(failures, u)
             /\ networkState' = networkState]_vars

\* C7: a pass that finds the token list empty returns without changing
\* NetworkState or the failure map, without touching the Token Store and
\* without running the sweep.
C7_EmptyPass ==
    [][(pc = "start" /\ db = {} /\ db' = {}) =>
          /\ pc' = "start"
          /\ todo' = todo
          /\ networkState' = networkState
          /\ failures' = failures]_vars

C7_Witness ==
    /\ last.op = "empty"
    /\ db = {}
    /\ DOMAIN networkState # {}

\* C8: a successful pass replaces the token's NetworkState entry by exactly
\* the clusters collected in that pass (all those the scanner accumulated),
\* leaves the entries of the other tokens alone, and no other step changes
\* NetworkState.
C8_ReplacedWholesale ==
    [][/\ SuccessStep =>
             /\ networkState' =
                   [x \in (DOMAIN networkState) \cup {token} |->
                       IF x = token THEN ledgerK ELSE networkState[x]]
             /\ {ledgerK[i] : i \in 1..Len(ledgerK)} =
                   {clusters[k] : k \in DOMAIN clusters}
             /\ Len(ledgerK) = Cardinality(DOMAIN clusters)
       /\ ~SuccessStep => networkState' = networkState]_vars

C8_Witness ==
    /\ last.op = "success"
    /\ Len(last.oldNet) = 2
    /\ Len(networkState[last.token]) = 1
    /\ DOMAIN networkState = Tokens

\* C9: when the processing of a token ends in failure (connection failure or
\* no collected cluster with workers), NetworkState is left as it was.
C9_FailureKeepsEntry ==
    [][FailureStep => networkState' = networkState]_vars

C9_Witness ==
    /\ last.op = "failed"
    /\ last.oldNet # <<>>
    /\ last.token \in DOMAIN networkState
    /\ networkState[last.token] = last.oldNet

ReceivedFromClusters ==
    \A i \in 1..Len(ledgerK) : \E k \in DOMAIN clusters : ledgerK[i] = clusters[k]

\* the key carries one of the two markers
HasMarker(k) == Contains(k, WorkerID) \/ Contains(k, FederatedID)

\* the identifiers of the values of vs that decode and are online, in order
ExpectedWorkers(vs) ==
    LET on == SelectSeq(vs, IsOnlineValue)
    IN  [i \in 1..Len(on) |-> on[i].ID]

\* C11: every ClusterData stored in NetworkState, and every ClusterData the
\* scanner accumulates and sends over the channel, has a non-empty Workers
\* list.
C11_WorkersNonEmpty ==
    /\ \A t \in DOMAIN networkState :
          \A i \in 1..Len(networkState[t]) : networkState[t][i].Workers # <<>>
    /\ \A k \in DOMAIN clusters : clusters[k].Workers # <<>>
    /\ \A i \in 1..Len(ledgerK) : ledgerK[i].Workers # <<>>

C11_Witness ==
    /\ last.op = "success"
    /\ networkState[last.token] # <<>>
    /\ spc = "closed"
    /\ KeyWorker \in scanLog.keys \ scanLog.online
    /\ ledgerK # <<>>

\* C12: a ledger key that contains neither marker never gets a ClusterData,
\* whatever its values (online nodes included).
C12_NoMarkerNoCluster ==
    /\ \A k \in DOMAIN clusters : HasMarker(k)
    /\ \A k \in scanLog.keys : ~HasMarker(k) => k \notin DOMAIN clusters
    /\ ReceivedFromClusters

C12_Witness ==
    /\ spc = "closed"
    /\ {KeyOther, KeyNetOther} \subseteq scanLog.online
    /\ KeyOther \notin DOMAIN clusters
    /\ KeyNetOther \notin DOMAIN clusters
    /\ ledgerK # <<>>

C14_OfflineOnlyDropped ==
    /\ \A k \in scanLog.keys \ scanLog.online : k \notin DOMAIN clusters
    /\ DOMAIN clusters \subseteq scanLog.online
    /\ ReceivedFromClusters

C14_Witness ==
    /\ spc = "closed"
    /\ KeyWorker \in scanLog.keys \ scanLog.online
    /\ KeyWorker \notin DOMAIN clusters
    /\ DOMAIN clusters = {KeyFed}

\* C15: Start stops only by returning after the cancellation was observed; no
\* per-token outcome ends it or aborts the pass.
C15_OnlyCancelStops ==
    pc \in {"returned", "panicked"} => (pc = "returned" /\ cancelled)

\* C16: once the context of Start is cancelled, the pass in progress runs to
\* its end and Start then returns.
C16_CancelReturns == cancelled ~> (pc = "returned")

\* C17: the loop never replaces an entry of the Networks map while a reader
\* that got the snapshot from NetworkState() is reading the map.
C17_NoWriteDuringRead ==
    [][networkState' # networkState => rpc # "reading"]_vars

C20_FailingTokenEvicted ==
    \A t \in Tokens :
       (t \in db /\ streak[t] >= 1) ~>
          (t \notin db \/ streak[t] = 0 \/ cancelled)

\* the text of k before its first underscore, empty when k has none
ExpectedNetworkID(k) ==
    LET us == {i \in 1..Len(k) : k[i] = "_"}
    IN  IF us = {} THEN <<>>
        ELSE SubSeq(k, 1, (CHOOSE i \in us : \A j \in us : i <= j) - 1)

\* the keys a sample of the ledger can hold
LedgerKeys == UNION {DOMAIN data : data \in Storages}

\* the ClusterData the loop has received, as a set
Received == {ledgerK[i] : i \in 1..Len(ledgerK)}

\* NewNode, Start or Ledger fails for the next token of the range loop
ConnectFailureStep ==
    pc = "loop" /\ todo # <<>> /\ todo' # todo /\ pc' # "recv"

\* C21: a failure of NewNode, Start or Ledger for a token adds exactly one to
\* the token's failure count, starts no scanner, and leaves the loop at the
\* next token of the pass (the sweep follows the last one).
C21_ConnectFailureContained ==
    [][ConnectFailureStep =>
          /\ Count(failures', Head(todo)) = Count(failures, Head(todo)) + 1
          /\ spc' = "off"
          /\ pc' = "loop"
          /\ todo' = Tail(todo)]_vars

\* C22: a scan that ends without any ClusterData with workers adds exactly
\* one to the failure count of its token, and the pass goes on.
C22_ZeroWorkerCounts ==
    [][(ScanEnds /\ ~CollectedWorkers) =>
          /\ Count(failures', token) = Count(failures, token) + 1
          /\ pc' = "loop"]_vars

\* C23: a scanner runs only while the loop waits on its channel, the loop
\* leaves that wait only when the scanner has closed the channel, and the
\* loop turns to another token only when no scanner runs.
C23_Sequential ==
    [][/\ spc' # "off" => pc' = "recv"
       /\ (pc = "recv" /\ pc' # "recv") => spc = "closed"
       /\ token' # token => spc = "off"
       /\ (spc = "off" /\ spc' # "off") => (pc = "loop" /\ token' = Head(todo))
      ]_vars

C23_Witness ==
    /\ pc = "recv"
    /\ spc = "sleep"
    /\ last.op = "success"
    /\ last.token # token
    /\ clusters # NoClusters

\* C24: the scanner sends nothing before it has seen its deadline fired; at
\* the close of the channel every accumulated cluster has been sent, once;
\* nothing is sent after the close.
C24_FlushAtDeadline ==
    [][/\ spc \in {"select", "sleep"} => ledgerK = <<>>
       /\ (ledgerK' # ledgerK /\ ledgerK' # <<>>) => (expired /\ spc = "flush")
       /\ (spc = "flush" /\ spc' = "closed") =>
             /\ Received = {clusters[k] : k \in DOMAIN clusters}
             /\ Len(ledgerK) = Cardinality(DOMAIN clusters)
       /\ spc = "closed" => (ledgerK' = ledgerK \/ ledgerK' = <<>>)
      ]_vars

C24_Witness ==
    /\ spc = "closed"
    /\ Len(ledgerK) = 2
    /\ DOMAIN clusters = {KeyNetWorker, KeyFed}

\* C25: once the deadline of the scan has fired, the scanner takes no further
\* sample of the ledger and its clusters no longer change.
C25_NoSampleAfterDeadline ==
    [][(expired /\ spc # "off") =>
          /\ ~(spc = "sleep" /\ spc' = "select")
          /\ (clusters' = clusters \/ spc' = "off")]_vars

\* C26: no scanner is running when runBackground is not, and a scanner that
\* was started always ends: what it sends is received and its close is seen.
C26_ScannerJoined ==
    /\ [](pc \in {"start", "returned"} => spc = "off")
    /\ (spc # "off") ~> (spc = "off")
    /\ (spc = "flush") ~> (spc = "closed")

C26_Witness ==
    /\ pc = "start"
    /\ last.op = "sweep"
    /\ \E t \in DOMAIN networkState : Len(networkState[t]) = 2

RefailedAndEvicted ==
    /\ SweepStep
    /\ last.op = "failed"
    /\ last.token \in Evicted(failures, errorThreshold)

C29_NetworkID ==
    /\ \A k \in DOMAIN clusters : clusters[k].NetworkID = ExpectedNetworkID(k)
    /\ \A cd \in Received :
          \E k \in LedgerKeys : cd.NetworkID = ExpectedNetworkID(k)
    /\ \A t \in DOMAIN networkState :
          \A i \in 1..Len(networkState[t]) :
             \E k \in LedgerKeys :
                /\ networkState[t][i].NetworkID = ExpectedNetworkID(k)
                /\ networkState[t][i].Type = ClusterType(k)

C29_Witness ==
    /\ "net1" \in DOMAIN networkState
    /\ networkState["net1"] =
          <<[Workers |-> <<"w1">>, Type |-> "worker",
             NetworkID |-> <<"n", "e", "t", "1">>]>>

\* C30: the deadlines of all tokens of a pass are the same instant, the start
\* of the pass plus connectionTime: once the scan of one token of the pass
\* has ended (its deadline has fired), the context of any token the pass
\* processes later is done as well.
C30_DeadlineFromPassStart ==
    (pc = "recv" /\ last.op = "success") =>
       (expired /\ token \notin DOMAIN held)

\* the tokens the range loop of the pass has still to visit
Remaining == {todo[i] : i \in 1..Len(todo)}

C32_LatestOnlineKept ==
    /\ \A k \in scanLog.online :
          HasMarker(k) =>
             /\ k \in DOMAIN clusters
             /\ clusters[k].Workers = ExpectedWorkers(scanLog.latest[k])
    /\ \A k \in DOMAIN clusters : k \in scanLog.online
    /\ Len(ledgerK) <= Cardinality(DOMAIN clusters)
    /\ \A i, j \in 1..Len(ledgerK) : i # j => ledgerK[i] # ledgerK[j]
    /\ ReceivedFromClusters
    /\ spc = "closed" => Len(ledgerK) = Cardinality(DOMAIN clusters)

C32_Witness ==
    /\ spc = "closed"
    /\ KeyNetWorker \in scanLog.stale
    /\ KeyWorker \in scanLog.keys
    /\ scanLog.latest[KeyNetWorker] = <<Online("w3"), Online("w1")>>
    /\ \E i \in 1..Len(ledgerK) : ledgerK[i].Workers = <<"w3", "w1">>

====
